---------------------------- MODULE Spec2Model ----------------------------
(***************************************************************************)
(* Model of scripts/parquet_viewer.py: main() and read_parquet_file().     *)
(*                                                                         *)
(* Python values are a closed tagged variant, every variant with the same  *)
(* record shape.  Texts are TLA+ strings, so that the JSON decoder, str()  *)
(* and the f-strings of the script are computed character by character.    *)
(* The JSON decoder covers the texts over the alphabet of Payloads:        *)
(* objects, arrays, strings (escapes \", \\ and \/), integers and the      *)
(* literals null, true and false; no payload of the model holds a float,   *)
(* a \u escape or a control character.                                     *)
(***************************************************************************)
EXTENDS Integers, Sequences, FiniteSets, TLC

(***************************************************************************)
(* Python values                                                           *)
(***************************************************************************)
PyNone    == [t |-> "none", n |-> 0, s |-> "", items |-> <<>>]
PyBool(b) == [t |-> "bool", n |-> IF b THEN 1 ELSE 0, s |-> "", items |-> <<>>]
PyInt(n)  == [t |-> "int",  n |-> n, s |-> "", items |-> <<>>]
PyStr(s)  == [t |-> "str",  n |-> 0, s |-> s,  items |-> <<>>]
\* a list holds values; a dict holds [k, v] entries in insertion order
PyList(items) == [t |-> "list", n |-> 0, s |-> "", items |-> items]
PyDict(items) == [t |-> "dict", n |-> 0, s |-> "", items |-> items]

\* isinstance(v, dict)
IsDict(v) == v.t = "dict"

\* d[k] = v on an insertion-ordered dict: an existing key keeps its place
RECURSIVE DictSet(_, _, _)
DictSet(items, k, v) ==
    IF items = <<>> THEN <<[k |-> k, v |-> v]>>
    ELSE IF Head(items).k = k THEN <<[k |-> k, v |-> v]>> \o Tail(items)
    ELSE <<Head(items)>> \o DictSet(Tail(items), k, v)

(***************************************************************************)
(* Texts                                                                   *)
(***************************************************************************)
CharAt(s, p) == IF p >= 1 /\ p <= Len(s) THEN SubSeq(s, p, p) ELSE ""

StartsWith(s, prefix) ==
    Len(s) >= Len(prefix) /\ SubSeq(s, 1, Len(prefix)) = prefix

\* prefix occurs in s at position p
OccursAt(s, sub, p) ==
    p + Len(sub) - 1 <= Len(s) /\ SubSeq(s, p, p + Len(sub) - 1) = sub

\* sub in s
Contains(s, sub) == \E p \in 1..(Len(s) + 1) : OccursAt(s, sub, p)

Digits == {"0", "1", "2", "3", "4", "5", "6", "7", "8", "9"}

DigitValue(c) ==
    CASE c = "0" -> 0 [] c = "1" -> 1 [] c = "2" -> 2 [] c = "3" -> 3
      [] c = "4" -> 4 [] c = "5" -> 5 [] c = "6" -> 6 [] c = "7" -> 7
      [] c = "8" -> 8 [] c = "9" -> 9

(***************************************************************************)
(* str() and repr() of a Python value, as the f-strings format it          *)
(***************************************************************************)
\* repr() of a str escapes the backslash and the chosen quote
RECURSIVE EscapeFor(_, _)
EscapeFor(s, quote) ==
    IF s = "" THEN ""
    ELSE LET c == Head(s)
         IN  (IF c = "\\" \/ c = quote THEN "\\" \o c ELSE c)
                 \o EscapeFor(Tail(s), quote)

StrRepr(s) ==
    IF Contains(s, "'") /\ ~Contains(s, "\"")
    THEN "\"" \o EscapeFor(s, "\"") \o "\""
    ELSE "'" \o EscapeFor(s, "'") \o "'"

RECURSIVE Repr(_), JoinList(_), JoinDict(_)
Repr(v) ==
    CASE v.t = "none" -> "None"
      [] v.t = "bool" -> IF v.n = 1 THEN "True" ELSE "False"
      [] v.t = "int"  -> ToString(v.n)
      [] v.t = "str"  -> StrRepr(v.s)
      [] v.t = "list" -> "[" \o JoinList(v.items) \o "]"
      [] v.t = "dict" -> "{" \o JoinDict(v.items) \o "}"

JoinList(items) ==
    IF items = <<>> THEN ""
    ELSE IF Len(items) = 1 THEN Repr(items[1])
    ELSE Repr(items[1]) \o ", " \o JoinList(Tail(items))

JoinDict(items) ==
    IF items = <<>> THEN ""
    ELSE LET e == StrRepr(items[1].k) \o ": " \o Repr(items[1].v)
         IN  IF Len(items) = 1 THEN e ELSE e \o ", " \o JoinDict(Tail(items))

\* str(v), which is what f"{v}" interpolates
Str(v) == IF v.t = "str" THEN v.s ELSE Repr(v)

(***************************************************************************)
(* json.loads                                                              *)
(***************************************************************************)
Fail == [ok |-> FALSE, val |-> PyNone, pos |-> 0]
Ok(v, p) == [ok |-> TRUE, val |-> v, pos |-> p]

Whitespace == {" ", "\t", "\n", "\r"}

RECURSIVE SkipWs(_, _)
SkipWs(s, p) == IF CharAt(s, p) \in Whitespace THEN SkipWs(s, p + 1) ELSE p

\* the body of a string literal from p, just after the opening quote
RECURSIVE ScanString(_, _, _)
ScanString(s, p, acc) ==
    LET c == CharAt(s, p)
    IN  IF c = "" THEN Fail
        ELSE IF c = "\"" THEN Ok(PyStr(acc), p + 1)
        ELSE IF c = "\\"
             THEN LET e == CharAt(s, p + 1)
                  IN  IF e \in {"\"", "\\", "/"}
                      THEN ScanString(s, p + 2, acc \o e)
                      ELSE Fail
        ELSE ScanString(s, p + 1, acc \o c)

RECURSIVE ScanDigits(_, _, _)
ScanDigits(s, p, acc) ==
    IF CharAt(s, p) \in Digits
    THEN ScanDigits(s, p + 1, 10 * acc + DigitValue(CharAt(s, p)))
    ELSE Ok(PyInt(acc), p)

\* -?(0|[1-9][0-9]*)
ScanNumber(s, p) ==
    LET neg == CharAt(s, p) = "-"
        q   == IF neg THEN p + 1 ELSE p
        r   == IF CharAt(s, q) = "0" THEN Ok(PyInt(0), q + 1)
               ELSE IF CharAt(s, q) \in Digits THEN ScanDigits(s, q, 0)
               ELSE Fail
    IN  IF r.ok /\ neg THEN Ok(PyInt(0 - r.val.n), r.pos) ELSE r

RECURSIVE ScanOnce(_, _), ScanArray(_, _, _), ScanObject(_, _, _)
ScanOnce(s, p) ==
    LET c == CharAt(s, p)
    IN  CASE c = "\"" -> ScanString(s, p + 1, "")
          [] c = "{" ->
               LET q == SkipWs(s, p + 1)
               IN  IF CharAt(s, q) = "}" THEN Ok(PyDict(<<>>), q + 1)
                   ELSE ScanObject(s, q, <<>>)
          [] c = "[" ->
               LET q == SkipWs(s, p + 1)
               IN  IF CharAt(s, q) = "]" THEN Ok(PyList(<<>>), q + 1)
                   ELSE ScanArray(s, q, <<>>)
          [] c = "n" /\ OccursAt(s, "null", p)  -> Ok(PyNone, p + 4)
          [] c = "t" /\ OccursAt(s, "true", p)  -> Ok(PyBool(TRUE), p + 4)
          [] c = "f" /\ OccursAt(s, "false", p) -> Ok(PyBool(FALSE), p + 5)
          [] c = "-" \/ c \in Digits -> ScanNumber(s, p)
          [] OTHER -> Fail

\* p is at the first character of a value; acc holds the earlier values
ScanArray(s, p, acc) ==
    LET r == ScanOnce(s, p)
    IN  IF ~r.ok THEN Fail
        ELSE LET q == SkipWs(s, r.pos)
                 c == CharAt(s, q)
             IN  IF c = "]" THEN Ok(PyList(Append(acc, r.val)), q + 1)
                 ELSE IF c = "," THEN ScanArray(s, SkipWs(s, q + 1), Append(acc, r.val))
                 ELSE Fail

\* p is at the opening quote of a key; acc holds the earlier entries
ScanObject(s, p, acc) ==
    IF CharAt(s, p) # "\"" THEN Fail
    ELSE LET k == ScanString(s, p + 1, "")
         IN  IF ~k.ok THEN Fail
             ELSE LET q == SkipWs(s, k.pos)
                  IN  IF CharAt(s, q) # ":" THEN Fail
                      ELSE LET r == ScanOnce(s, SkipWs(s, q + 1))
                           IN  IF ~r.ok THEN Fail
                               ELSE LET e   == SkipWs(s, r.pos)
                                        c   == CharAt(s, e)
                                        nxt == DictSet(acc, k.val.s, r.val)
                                    IN  IF c = "}" THEN Ok(PyDict(nxt), e + 1)
                                        ELSE IF c = ","
                                             THEN ScanObject(s, SkipWs(s, e + 1), nxt)
                                        ELSE Fail

\* json.loads(v): [ok, val]; ok = FALSE stands for the exception raised
\* (TypeError for a value that is no text, JSONDecodeError for a bad text or
\* for text left over after the value)
json_loads(v) ==
    IF v.t # "str" THEN Fail
    ELSE LET r == ScanOnce(v.s, SkipWs(v.s, 1))
         IN  IF r.ok /\ SkipWs(v.s, r.pos) = Len(v.s) + 1 THEN Ok(r.val, 0) ELSE Fail

(***************************************************************************)
(* The environment of one invocation: the command line, the file system    *)
(* and what the pandas calls answer.                                       *)
(***************************************************************************)
MaxRows == 2

\* cells of a data_json column: texts, and values that are no text
Payloads ==
    { PyStr("{\"id\":1,\"name\":\"a\"}"), PyStr("not-json"), PyStr("x"),
      PyStr("\"Error parsing JSON: x\""), PyStr("[1, \"a\"]"), PyStr("{}"),
      PyNone }

ColumnLayouts ==
    { <<"table_name", "data_json">>, <<"data_json", "id", "table_name">>,
      <<"table_name", "id">>, <<"id", "name">>, <<"Table_Name", "data_json">> }

\* the values a column of that name holds
CellsOf(column) ==
    CASE column = "data_json"  -> Payloads
      [] column = "table_name" -> {PyStr("users"), PyStr("orders")}
      [] column = "Table_Name" -> {PyStr("users")}
      [] column = "id"         -> {PyInt(1)}
      [] column = "name"       -> {PyStr("a"), PyStr("b")}

\* str(dtype) of a column
DtypeOf(column) == IF column = "id" THEN "int64" ELSE "object"

\* the row labels pd.read_parquet gives the frame: a RangeIndex, or the index
\* the writer stored in the file's pandas metadata
RangeIndex(n)  == [k \in 1..n |-> k - 1]
StoredIndex(n) == [k \in 1..n |-> 10 * k]

RowsOf(columns) ==
    { r \in [1..Len(columns) -> UNION {CellsOf(columns[c]) : c \in 1..Len(columns)}] :
        \A c \in 1..Len(columns) : r[c] \in CellsOf(columns[c]) }

\* a DataFrame: column names in file order, row labels, rows of cells
FramesOf(cols, n) ==
    { [columns |-> cols, index |-> idx, values |-> vals] :
        idx \in {RangeIndex(n), StoredIndex(n)}, vals \in [1..n -> RowsOf(cols)] }

Frames == UNION {FramesOf(cols, n) : cols \in ColumnLayouts, n \in 0..MaxRows}

EmptyFrame == [columns |-> <<>>, index |-> <<>>, values |-> <<>>]

Program == "parquet_viewer.py"
Path == "data.parquet"

\* exists: os.path.exists(path); valid: pd.read_parquet(path) returns df;
\* fastparquet: pd.io.parquet.api.fastparquet.ParquetFile(path) resolves and
\* parses (it cannot on a file pd.read_parquet rejects).  Arguments after
\* the path are never read, so the runs with one are kept to two files.
Envs ==
    { e \in [argv : {<<Program>>, <<Program, Path>>, <<Program, Path, "extra">>},
             exists : BOOLEAN, valid : BOOLEAN, fastparquet : BOOLEAN,
             df : Frames \cup {EmptyFrame}, st_size : {2048}] :
        /\ (e.df # EmptyFrame) <=> (Len(e.argv) >= 2 /\ e.exists /\ e.valid)
        /\ Len(e.argv) < 2 => e.exists /\ e.valid /\ e.fastparquet
        /\ ~e.exists => ~e.valid /\ ~e.fastparquet
        /\ Len(e.argv) = 3 => e.df.columns \in {<<>>, <<"id", "name">>} }

ReadErrorText == "Could not open Parquet input source"
SchemaErrorText == "module 'pandas.io.parquet' has no attribute 'api'"

VARIABLES env, pc, file_path, df, file_info, result, it, exc, stdout, exit_status, calls

vars == <<env, pc, file_path, df, file_info, result, it, exc, stdout, exit_status, calls>>

NoResult == [file_size |-> 0, num_rows |-> 0, schema |-> <<>>, rows |-> <<>>]

Init ==
    /\ env \in Envs
    /\ pc = "main"
    /\ file_path = ""
    /\ df = EmptyFrame
    /\ file_info = [st_size |-> 0]
    /\ result = NoResult
    /\ it = 1
    /\ exc = ""
    /\ stdout = <<>>
    /\ exit_status = <<>>
    /\ calls = <<>>

\* what print(text) of the statement stmt adds to standard output
Line(stmt, text) == [stmt |-> stmt, text |-> text]

\* sys.exit(code) after the prints in lines
Exit(lines, code) ==
    /\ stdout' = stdout \o lines
    /\ exit_status' = <<code>>
    /\ pc' = "exited"

(***************************************************************************)
(* read_parquet_file                                                       *)
(***************************************************************************)
ColumnPos(columns, column) == CHOOSE c \in 1..Len(columns) : columns[c] = column

\* column in df.columns
HasColumn(frame, column) == \E c \in 1..Len(frame.columns) : frame.columns[c] = column

\* row[column] of the r-th row that df.iterrows() yields
Cell(frame, r, column) == frame.values[r][ColumnPos(frame.columns, column)]

\* 'table_name' in df.columns and 'data_json' in df.columns
IsStructured(frame) == HasColumn(frame, "table_name") /\ HasColumn(frame, "data_json")

\* {column: str(dtype) for column, dtype in zip(df.columns, df.dtypes)}
SchemaOf(frame) ==
    [c \in 1..Len(frame.columns) |->
        [k |-> frame.columns[c], v |-> DtypeOf(frame.columns[c])]]

\* the except branch that reports the failure without the payload
Placeholder_WithoutPayload(payload) == PyStr("Error parsing JSON")

ErrorPrefix == "Error parsing JSON: "

\* the text of the except branch for a payload that did not decode
Placeholder(payload) == PyStr(ErrorPrefix \o Str(payload))

\* the record the structured loop appends for the r-th row
StructuredRow(frame, r) ==
    LET table_name == Cell(frame, r, "table_name")
        payload    == Cell(frame, r, "data_json")
        decoded    == json_loads(payload)
    IN  [row_index  |-> frame.index[r],
         table_name |-> table_name,
         data       |-> IF decoded.ok THEN decoded.val ELSE Placeholder(payload)]

\* a to_dict() that leaves the first column out
RowToDict_WithoutFirstColumn(frame, r) ==
    PyDict([c \in 1..(Len(frame.columns) - 1) |->
               [k |-> frame.columns[c + 1], v |-> frame.values[r][c + 1]]])

\* row.to_dict()
RowToDict(frame, r) ==
    PyDict([c \in 1..Len(frame.columns) |->
               [k |-> frame.columns[c], v |-> frame.values[r][c]]])

\* a generic loop that copies the table name when the column is there
GenericRow_WithTableName(frame, r) ==
    IF HasColumn(frame, "table_name")
    THEN [row_index  |-> frame.index[r],
          table_name |-> Cell(frame, r, "table_name"),
          data       |-> RowToDict(frame, r)]
    ELSE [row_index |-> frame.index[r], data |-> RowToDict(frame, r)]

\* the record the generic loop appends for the r-th row
GenericRow(frame, r) ==
    [row_index |-> frame.index[r], data |-> RowToDict(frame, r)]

\* an existence check that reports the missing file and goes on
check_exists_without_exit ==
    /\ pc = "exists"
    /\ calls' = Append(calls, "os.path.exists")
    /\ stdout' = IF env.exists THEN stdout
                 ELSE Append(stdout, Line("not_found",
                          "Error: File " \o file_path \o " does not exist"))
    /\ pc' = "read_parquet"
    /\ UNCHANGED <<env, file_path, df, file_info, result, it, exc, exit_status>>

\* if not os.path.exists(file_path): print, sys.exit(1)
check_exists ==
    /\ pc = "exists"
    /\ calls' = Append(calls, "os.path.exists")
    /\ IF env.exists
       THEN /\ pc' = "read_parquet"
            /\ UNCHANGED <<stdout, exit_status>>
       ELSE Exit(<<Line("not_found", "Error: File " \o file_path \o " does not exist")>>, 1)
    /\ UNCHANGED <<env, file_path, df, file_info, result, it, exc>>

\* df = pd.read_parquet(file_path), which raises on a file it cannot parse
read_parquet ==
    /\ pc = "read_parquet"
    /\ calls' = Append(calls, "pd.read_parquet")
    /\ IF env.valid
       THEN /\ df' = env.df
            /\ pc' = "stat"
            /\ exc' = exc
       ELSE /\ exc' = ReadErrorText
            /\ pc' = "except"
            /\ df' = df
    /\ UNCHANGED <<env, file_path, file_info, result, it, stdout, exit_status>>

\* file_info = os.stat(file_path)
os_stat ==
    /\ pc = "stat"
    /\ calls' = Append(calls, "os.stat")
    /\ file_info' = [st_size |-> env.st_size]
    /\ pc' = "schema"
    /\ UNCHANGED <<env, file_path, df, result, it, exc, stdout, exit_status>>

\* schema = pd.io.parquet.api.fastparquet.ParquetFile(file_path).schema;
\* the value is never read, the lookup and the parse can raise
extract_schema ==
    /\ pc = "schema"
    /\ calls' = Append(calls, "ParquetFile")
    /\ IF env.fastparquet
       THEN /\ pc' = "result"
            /\ exc' = exc
       ELSE /\ exc' = SchemaErrorText
            /\ pc' = "except"
    /\ UNCHANGED <<env, file_path, df, file_info, result, it, stdout, exit_status>>

\* result = {...}, then the test that picks the loop
build_result ==
    /\ pc = "result"
    /\ result' = [file_size |-> file_info.st_size,
                  num_rows  |-> Len(df.values),
                  schema    |-> SchemaOf(df),
                  rows      |-> <<>>]
    /\ pc' = IF IsStructured(df) THEN "structured" ELSE "generic"
    /\ it' = 1
    /\ UNCHANGED <<env, file_path, df, file_info, exc, stdout, exit_status, calls>>

\* a structured loop that drops the row whose payload does not decode
structured_row_dropping_failures ==
    /\ pc = "structured"
    /\ it <= Len(df.values)
    /\ result' = IF json_loads(Cell(df, it, "data_json")).ok
                 THEN [result EXCEPT !.rows = Append(@, StructuredRow(df, it))]
                 ELSE result
    /\ it' = it + 1
    /\ UNCHANGED <<env, pc, file_path, df, file_info, exc, stdout, exit_status, calls>>

\* one iteration of the loop over df.iterrows() of the special format
structured_row ==
    /\ pc = "structured"
    /\ it <= Len(df.values)
    /\ result' = [result EXCEPT !.rows = Append(@, StructuredRow(df, it))]
    /\ it' = it + 1
    /\ UNCHANGED <<env, pc, file_path, df, file_info, exc, stdout, exit_status, calls>>

\* one iteration of the loop over df.iterrows() of the regular format
generic_row ==
    /\ pc = "generic"
    /\ it <= Len(df.values)
    /\ result' = [result EXCEPT !.rows = Append(@, GenericRow(df, it))]
    /\ it' = it + 1
    /\ UNCHANGED <<env, pc, file_path, df, file_info, exc, stdout, exit_status, calls>>

\* return result
return_result ==
    /\ pc \in {"structured", "generic"}
    /\ it > Len(df.values)
    /\ pc' = "print_summary"
    /\ UNCHANGED <<env, file_path, df, file_info, result, it, exc, stdout, exit_status, calls>>

\* a handler that reports the exception and lets main go on
except_handler_without_exit ==
    /\ pc = "except"
    /\ stdout' = Append(stdout, Line("read_error", "Error reading Parquet file: " \o exc))
    /\ pc' = "print_summary"
    /\ UNCHANGED <<env, file_path, df, file_info, result, it, exc, exit_status, calls>>

\* except Exception as e: print, sys.exit(1)
except_handler ==
    /\ pc = "except"
    /\ Exit(<<Line("read_error", "Error reading Parquet file: " \o exc)>>, 1)
    /\ UNCHANGED <<env, file_path, df, file_info, result, it, exc, calls>>

(***************************************************************************)
(* main                                                                    *)
(***************************************************************************)
\* len(sys.argv) < 2
MissingArgument(argv) == Len(argv) < 2

\* the argument check, then file_path = sys.argv[1]
check_args ==
    /\ pc = "main"
    /\ IF MissingArgument(env.argv)
       THEN /\ Exit(<<Line("usage", "Usage: python parquet_viewer.py <parquet_file>")>>, 1)
            /\ file_path' = file_path
       ELSE /\ file_path' = env.argv[2]
            /\ pc' = "exists"
            /\ UNCHANGED <<stdout, exit_status>>
    /\ UNCHANGED <<env, df, file_info, result, it, exc, calls>>

\* the prints of the summary and of the schema heading
SummaryLines(path, res) ==
    << Line("file", "Parquet File: " \o path),
       Line("size", "File Size: " \o ToString(res.file_size) \o " bytes"),
       Line("num_rows", "Number of Rows: " \o ToString(res.num_rows)),
       Line("schema_heading", "\nSchema:") >>

print_summary ==
    /\ pc = "print_summary"
    /\ stdout' = stdout \o SummaryLines(file_path, result)
    /\ pc' = "print_schema"
    /\ it' = 1
    /\ UNCHANGED <<env, file_path, df, file_info, result, exc, exit_status, calls>>

\* print(f"  {column}: {dtype}")
SchemaLine(entry) == Line("schema", "  " \o entry.k \o ": " \o entry.v)

print_schema ==
    /\ pc = "print_schema"
    /\ it <= Len(result.schema)
    /\ stdout' = Append(stdout, SchemaLine(result.schema[it]))
    /\ it' = it + 1
    /\ UNCHANGED <<env, pc, file_path, df, file_info, result, exc, exit_status, calls>>

\* print("\nRows:")
print_rows_heading ==
    /\ pc = "print_schema"
    /\ it > Len(result.schema)
    /\ stdout' = Append(stdout, Line("rows_heading", "\nRows:"))
    /\ pc' = "print_rows"
    /\ it' = 1
    /\ UNCHANGED <<env, file_path, df, file_info, result, exc, exit_status, calls>>

\* print(f"\nRow {row['row_index']}:")
RowHeading(row) == Line("row", "\nRow " \o ToString(row.row_index) \o ":")

\* if 'table_name' in row: print(f"  Table: {row['table_name']}")
TableLines(row) ==
    IF "table_name" \in DOMAIN row
    THEN <<Line("table", "  Table: " \o Str(row.table_name))>>
    ELSE <<>>

\* a renderer that prints repr() of a value that is no dict
DataLines_WithRepr(data) ==
    IF IsDict(data)
    THEN [e \in 1..Len(data.items) |->
             Line("item", "  " \o data.items[e].k \o ": " \o Str(data.items[e].v))]
    ELSE <<Line("value", "  " \o Repr(data))>>

\* the prints for row['data']: one per item of a dict, else one for the value
DataLines(data) ==
    IF IsDict(data)
    THEN [e \in 1..Len(data.items) |->
             Line("item", "  " \o data.items[e].k \o ": " \o Str(data.items[e].v))]
    ELSE <<Line("value", "  " \o Str(data))>>

\* the body of the loop over result["rows"]
RowLines(row) == <<RowHeading(row)>> \o TableLines(row) \o DataLines(row.data)

print_row ==
    /\ pc = "print_rows"
    /\ it <= Len(result.rows)
    /\ stdout' = stdout \o RowLines(result.rows[it])
    /\ it' = it + 1
    /\ UNCHANGED <<env, pc, file_path, df, file_info, result, exc, exit_status, calls>>

\* main returns and the interpreter exits with status 0
main_return ==
    /\ pc = "print_rows"
    /\ it > Len(result.rows)
    /\ Exit(<<>>, 0)
    /\ UNCHANGED <<env, file_path, df, file_info, result, it, exc, calls>>

Next ==
    \/ check_args
    \/ check_exists
    \/ read_parquet
    \/ os_stat
    \/ extract_schema
    \/ build_result
    \/ structured_row
    \/ generic_row
    \/ return_result
    \/ except_handler
    \/ print_summary
    \/ print_schema
    \/ print_rows_heading
    \/ print_row
    \/ main_return

Spec == Init /\ [][Next]_vars

(***************************************************************************)
(* Properties                                                              *)
(***************************************************************************)
ReportStmts ==
    {"file", "size", "num_rows", "schema_heading", "schema", "rows_heading",
     "row", "table", "item", "value"}

ReportPrefixes == {"Parquet File:", "File Size:", "Number of Rows:", "\nSchema:",
                   "\nRows:", "\nRow ", "  "}

IsReportLine(line) ==
    \/ line.stmt \in ReportStmts
    \/ \E prefix \in ReportPrefixes : StartsWith(line.text, prefix)

NoReportLine == \A k \in 1..Len(stdout) : ~IsReportLine(stdout[k])

Succeeded == pc = "exited" /\ exit_status = <<0>>

\* read_parquet_file has returned its result to main
Returned == pc \in {"print_summary", "print_schema", "print_rows"} \/ Succeeded

\* the rows the loop of read_parquet_file has gone through
Processed == 1..Len(result.rows)

StructuredFile == {"table_name", "data_json"} \subseteq
                      {env.df.columns[c] : c \in 1..Len(env.df.columns)}

\* C1: once a call inside the try block of read_parquet_file has raised
\* (pd.read_parquet or the schema extraction), the run can only print the one
\* "Error reading Parquet file" message and exit with code 1; no line of the
\* report is on standard output before or after it.
C1_FailureIsTerminal ==
    exc # "" =>
        /\ pc \in {"except", "exited"}
        /\ NoReportLine
        /\ pc = "except" => stdout = <<>> /\ exit_status = <<>>
        /\ pc = "exited" =>
              /\ exit_status = <<1>>
              /\ stdout = <<Line("read_error", "Error reading Parquet file: " \o exc)>>

C1_Witness ==
    /\ pc = "exited"
    /\ exc = SchemaErrorText
    /\ calls = <<"os.path.exists", "pd.read_parquet", "os.stat", "ParquetFile">>
    /\ Len(env.df.values) = MaxRows

\* C2: in structured mode every processed row whose payload does not decode
\* (a malformed text or a value that is no text) has a record at its own
\* position with its own index label and table name and a string as data that
\* holds the payload's text; the row count stays the number of rows of the
\* file, the rows after it are processed too, and the run neither enters the
\* outer handler nor exits with code 1.
C2_DecodeFailureIsLocal ==
    (pc = "structured" \/ (Returned /\ StructuredFile)) =>
        /\ exc = ""
        /\ pc = "exited" => exit_status = <<0>>
        /\ result.num_rows = Len(env.df.values)
        /\ Len(result.rows) = IF pc = "structured" THEN it - 1 ELSE Len(env.df.values)
        /\ \A r \in Processed :
              LET payload == Cell(env.df, r, "data_json")
                  row     == result.rows[r]
              IN  ~json_loads(payload).ok =>
                      /\ row.row_index = env.df.index[r]
                      /\ row.table_name = Cell(env.df, r, "table_name")
                      /\ row.data.t = "str"
                      /\ Contains(row.data.s, Str(payload))

\* a failed row (a malformed text) followed by a decoded row, and a failed row
\* whose payload is no text, all emitted
C2_Witness ==
    /\ Succeeded
    /\ StructuredFile
    /\ Len(result.rows) = MaxRows
    /\ Cell(env.df, 1, "data_json") = PyStr("not-json")
    /\ Cell(env.df, MaxRows, "data_json") = PyNone
    /\ result.rows[MaxRows].data = PyStr("Error parsing JSON: None")

\* C3: every record of the result has a table_name field when the file has
\* both a 'table_name' and a 'data_json' column, and none has one when either
\* column is missing (also when a 'table_name' column is there); the report
\* has a "Table:" line for each of its rows or for none.
C3_OneModePerFile ==
    /\ \A r \in Processed : ("table_name" \in DOMAIN result.rows[r]) <=> StructuredFile
    /\ pc = "structured" => StructuredFile
    /\ pc = "generic" => ~StructuredFile
    /\ LET tables == {k \in 1..Len(stdout) : stdout[k].stmt = "table"}
           rows   == {k \in 1..Len(stdout) : stdout[k].stmt = "row"}
       IN  /\ Cardinality(tables) = IF StructuredFile THEN Cardinality(rows) ELSE 0
           /\ \A k \in tables : stdout[k - 1].stmt = "row"

\* a file with a table_name column and no data_json column, rendered
C3_Witness ==
    /\ Succeeded
    /\ env.df.columns = <<"table_name", "id">>
    /\ Len(result.rows) = MaxRows
    /\ \A k \in 1..Len(stdout) : stdout[k].stmt # "table"

\* C4: for a path that does not exist the only call on the path is
\* os.path.exists; the run prints one message that contains the path, exits
\* with code 1 and prints no line of the report.
C4_MissingFile ==
    (~MissingArgument(env.argv) /\ ~env.exists) =>
        /\ pc \in {"main", "exists", "exited"}
        /\ \A k \in 1..Len(calls) : calls[k] = "os.path.exists"
        /\ NoReportLine
        /\ pc = "exited" =>
              /\ exit_status = <<1>>
              /\ Len(stdout) = 1
              /\ Contains(stdout[1].text, env.argv[2])

C4_Witness ==
    /\ pc = "exited"
    /\ ~env.exists
    /\ calls = <<"os.path.exists">>
    /\ stdout = <<Line("not_found", "Error: File data.parquet does not exist")>>

\* C5: when read_parquet_file returns, num_rows is the number of rows of the
\* file, rows has one record per row of the file (whatever the payloads), and
\* the keys of schema are the file's column names in the file's order.
C5_ResultShape ==
    Returned =>
        /\ result.num_rows = Len(env.df.values)
        /\ Len(result.rows) = Len(env.df.values)
        /\ Len(result.schema) = Len(env.df.columns)
        /\ \A c \in 1..Len(env.df.columns) : result.schema[c].k = env.df.columns[c]
        /\ result.file_size = env.st_size

\* a returned result for a file all of whose payloads fail to decode
C5_Witness ==
    /\ Returned
    /\ StructuredFile
    /\ Len(result.rows) = MaxRows
    /\ MaxRows > 0
    /\ \A r \in 1..MaxRows : ~json_loads(Cell(env.df, r, "data_json")).ok

\* the texts of standard output from line k on
TextsFrom(k) == [j \in 1..(Len(stdout) - k + 1) |-> stdout[j + k - 1].text]

\* the lines of the summary and of the schema block, and the "Rows:" line
PreambleLen == 5 + Len(env.df.columns)

IsRowHeading(line) == line.stmt = "row"

\* C6: every finished run is one of: no argument -> usage message, code 1, no
\* call on any file; missing file -> error message, code 1; file that cannot
\* be read -> error message, code 1; existing valid file -> the whole report,
\* code 0.
C6_FourOutcomes ==
    pc = "exited" =>
        CASE MissingArgument(env.argv) ->
               exit_status = <<1>> /\ Len(stdout) = 1 /\ stdout[1].stmt = "usage"
                   /\ calls = <<>>
          [] ~MissingArgument(env.argv) /\ ~env.exists ->
               exit_status = <<1>> /\ Len(stdout) = 1 /\ stdout[1].stmt = "not_found"
          [] ~MissingArgument(env.argv) /\ env.exists /\ ~env.valid ->
               exit_status = <<1>> /\ Len(stdout) = 1 /\ stdout[1].stmt = "read_error"
          [] OTHER ->
               /\ exit_status = <<0>>
               /\ Len(stdout) >= PreambleLen
               /\ stdout[1].stmt = "file"
               /\ Len(SelectSeq(stdout, IsRowHeading)) = Len(env.df.values)

\* C7: a report is the summary lines, then one "name: type" line per column in
\* column order, then the rows in file order, and the k-th row printed,
\* counting from 0, is headed "Row k:".
C7_ReportOrder ==
    Succeeded =>
        /\ Len(stdout) >= PreambleLen
        /\ <<stdout[1].stmt, stdout[2].stmt, stdout[3].stmt, stdout[4].stmt>>
               = <<"file", "size", "num_rows", "schema_heading">>
        /\ \A c \in 1..Len(env.df.columns) :
              stdout[4 + c] = Line("schema", "  " \o env.df.columns[c] \o ": "
                                                  \o DtypeOf(env.df.columns[c]))
        /\ stdout[PreambleLen].stmt = "rows_heading"
        /\ \A k \in (PreambleLen + 1)..Len(stdout) : stdout[k].stmt \in {"row", "table", "item", "value"}
        /\ LET headings == SelectSeq(stdout, IsRowHeading)
           IN  /\ Len(headings) = Len(env.df.values)
               /\ \A k \in 1..Len(headings) :
                     headings[k].text = "\nRow " \o ToString(k - 1) \o ":"

\* C8: in generic mode the data of every record is a dict whose keys are the
\* file's columns in column order, with the row's cells as values, and the
\* report has, under every row heading, one "key: value" line per column.
C8_GenericRows ==
    ~StructuredFile =>
        LET nc == Len(env.df.columns)
            nr == Len(env.df.values)
        IN  /\ \A r \in Processed :
                  /\ result.rows[r].data.t = "dict"
                  /\ Len(result.rows[r].data.items) = nc
                  /\ \A c \in 1..nc :
                        result.rows[r].data.items[c] =
                            [k |-> env.df.columns[c], v |-> env.df.values[r][c]]
            /\ Succeeded =>
                  /\ Len(stdout) = PreambleLen + nr * (1 + nc)
                  /\ \A r \in 1..nr :
                        LET at == PreambleLen + (r - 1) * (1 + nc) + 1
                        IN  /\ stdout[at].stmt = "row"
                            /\ \A c \in 1..nc :
                                  stdout[at + c] =
                                      Line("item", "  " \o env.df.columns[c] \o ": "
                                                        \o Str(env.df.values[r][c]))

\* a file with a data_json column and no table_name column, rendered
C8_Witness ==
    /\ Succeeded
    /\ env.df.columns = <<"Table_Name", "data_json">>
    /\ Len(env.df.values) = MaxRows
    /\ MaxRows > 0
    /\ stdout[Len(stdout)].stmt = "item"

\* the data lines of a structured row, payload by payload, as Python prints them
ExpectedDataTexts(payload) ==
    CASE payload = PyStr("{\"id\":1,\"name\":\"a\"}") -> <<"  id: 1", "  name: a">>
      [] payload = PyStr("not-json") -> <<"  Error parsing JSON: not-json">>
      [] payload = PyStr("x") -> <<"  Error parsing JSON: x">>
      [] payload = PyStr("\"Error parsing JSON: x\"") -> <<"  Error parsing JSON: x">>
      [] payload = PyStr("[1, \"a\"]") -> <<"  [1, 'a']">>
      [] payload = PyStr("{}") -> <<>>
      [] payload = PyNone -> <<"  Error parsing JSON: None">>

RECURSIVE ExpectedRowTexts(_, _)
ExpectedRowTexts(frame, r) ==
    IF r > Len(frame.values) THEN <<>>
    ELSE << "\nRow " \o ToString(frame.index[r]) \o ":",
            "  Table: " \o Cell(frame, r, "table_name").s >>
             \o ExpectedDataTexts(Cell(frame, r, "data_json"))
             \o ExpectedRowTexts(frame, r + 1)

ExampleRows ==
    << <<PyStr("users"), PyStr("{\"id\":1,\"name\":\"a\"}")>>,
       <<PyStr("users"), PyStr("not-json")>> >>

ExampleFrame ==
    [columns |-> <<"table_name", "data_json">>, index |-> RangeIndex(2),
     values |-> ExampleRows]

\* C9: in structured mode every row of the report is its heading, its table
\* name, and then one "key: value" line per entry of a payload that decoded to
\* an object, or one line with str() of any other decoded value or of the
\* decode-failure placeholder.  The file of rows 0 = (users, {"id":1,"name":"a"})
\* and 1 = (users, not-json) gives Row 0, Table users, id: 1, name: a, then
\* Row 1, Table users and the line "Error parsing JSON: not-json".
C9_StructuredRendering ==
    (Succeeded /\ StructuredFile) =>
        /\ TextsFrom(PreambleLen + 1) = ExpectedRowTexts(env.df, 1)
        /\ \A r \in Processed :
              LET decoded == json_loads(Cell(env.df, r, "data_json"))
              IN  IsDict(result.rows[r].data) <=> (decoded.ok /\ decoded.val.t = "dict")
        /\ Len(SelectSeq(stdout, LAMBDA line : line.stmt = "value"))
               = Cardinality({r \in Processed : ~IsDict(result.rows[r].data)})
        /\ env.df = ExampleFrame =>
              TextsFrom(PreambleLen + 1) =
                  << "\nRow 0:", "  Table: users", "  id: 1", "  name: a",
                     "\nRow 1:", "  Table: users", "  Error parsing JSON: not-json" >>

C9_Witness ==
    /\ Succeeded
    /\ env.df = ExampleFrame
    /\ stdout[Len(stdout)] = Line("value", "  Error parsing JSON: not-json")

\* C10: in structured mode the data of a record is a string that begins with
\* "Error parsing JSON: " exactly when the payload of its row failed to decode.
C10_PlaceholderOnlyOnFailure ==
    StructuredFile =>
        \A r \in Processed :
            (result.rows[r].data.t = "str" /\ StartsWith(result.rows[r].data.s, ErrorPrefix))
                <=> ~json_loads(Cell(env.df, r, "data_json")).ok

=============================================================================
